---- MODULE Spec2Model ----
(***************************************************************************)
(* A model of bpdiag (src/bpdiag/bpdiag.py): the Measurement and Statistic *)
(* classes, the parsers parse_plaintext, parse_json, parse_regex and       *)
(* parse_csv, and main.                                                    *)
(*                                                                         *)
(* Text is a sequence of one-character strings.  Python objects are        *)
(* records, told apart by their fields: None is [none |-> TRUE], a list is *)
(* [list |-> <<...>>], an int met where None may stand too is [int |-> n], *)
(* and a Measurement is its attribute dictionary [sys, dia, pulse, ...].   *)
(***************************************************************************)
EXTENDS Integers, Sequences, FiniteSets, TLC

VARIABLES
  lines,      \* the input: the sequence of lines (or records) handed to a parser
  args,       \* the keyword arguments of the call
  consumed,   \* how many lines the parser has taken from the iterator
  line,       \* parse_plaintext: the current line, stripped
  line_data,  \* parse_plaintext: the slots collected from the current line
  data,       \* the parser's result list / the dataset of a Statistic
  stats,      \* the attributes evaluate_data has set on the Statistic
  pc,         \* where the call is: "loop", "returned", "raised", ...
  exc,        \* the exception the call ended with, or NoExc
  bp_dict,    \* test_parse_json: the as_dict() forms that were serialised
  status      \* main: the return code, or None while main runs

vars == <<lines, args, consumed, line, line_data, data, stats, pc, exc, bp_dict, status>>

----------------------------------------------------------------------------
(* Bounds of the model.                                                    *)

MaxTokens == 2
MaxEntries == 2
MaxData == 3
MaxElems == 2
MaxLines == 3
MaxRecords == 2
MaxMeasurements == 2
MaxFiles == 2

----------------------------------------------------------------------------
(* Python values.                                                          *)

None == [none |-> TRUE]

IsNone(v) == "none" \in DOMAIN v

PyInt(n) == [int |-> n]

IsList(v) == "list" \in DOMAIN v

IsMeasurement(v) == {"sys", "dia", "pulse"} \subseteq DOMAIN v

NoExc == [type |-> "none"]

\* No Statistic has been built; the call takes no keyword arguments.
NoStats == [none |-> TRUE]

NoArgs == [none |-> TRUE]

BpdiagError(msg) == [type |-> "BpdiagError", msg |-> msg]

\* The three values of the *check* argument.
Strict == "True"
Lenient == "False"
Silent == "None"

\* Python's ``not check``: true of False and of None.
NotCheck(check) == check # Strict

----------------------------------------------------------------------------
(* str.strip, str.split and int() on text.                                 *)

IsSpace(c) == c = " "

RECURSIVE LStrip(_)
LStrip(s) == IF Len(s) > 0 /\ IsSpace(s[1]) THEN LStrip(Tail(s)) ELSE s

RECURSIVE RStrip(_)
RStrip(s) ==
  IF Len(s) > 0 /\ IsSpace(s[Len(s)]) THEN RStrip(SubSeq(s, 1, Len(s) - 1)) ELSE s

\* str.strip(): the text without its leading and trailing whitespace.
Strip(s) == RStrip(LStrip(s))

\* str.find(sep, i): the first place at or after i where sep stands in s, or 0.
RECURSIVE Find(_, _, _)
Find(s, sep, i) ==
  IF i + Len(sep) - 1 > Len(s) THEN 0
  ELSE IF SubSeq(s, i, i + Len(sep) - 1) = sep THEN i
  ELSE Find(s, sep, i + 1)

\* str.split(sep) for a non-empty sep: cut at each leftmost, non-overlapping
\* occurrence of sep; a text without one is a single part.
RECURSIVE Split(_, _)
Split(s, sep) ==
  LET i == Find(s, sep, 1)
  IN IF i = 0 THEN <<s>>
     ELSE <<SubSeq(s, 1, i - 1)>> \o Split(SubSeq(s, i + Len(sep), Len(s)), sep)

Digits == {"0", "1", "2", "3", "4", "5", "6", "7", "8", "9"}

DigitVal(c) ==
  CASE c = "0" -> 0 [] c = "1" -> 1 [] c = "2" -> 2 [] c = "3" -> 3
    [] c = "4" -> 4 [] c = "5" -> 5 [] c = "6" -> 6 [] c = "7" -> 7
    [] c = "8" -> 8 [] c = "9" -> 9

IsSign(c) == c \in {"+", "-"}

\* The digits of a stripped literal, its sign taken off.
Unsigned(t) == IF Len(t) > 0 /\ IsSign(t[1]) THEN Tail(t) ELSE t

\* int(text) succeeds: optional whitespace, an optional sign, one or more digits.
IsIntLiteral(s) ==
  LET u == Unsigned(Strip(s))
  IN Len(u) > 0 /\ \A i \in 1..Len(u) : u[i] \in Digits

RECURSIVE DigitsValue(_)
DigitsValue(u) ==
  IF Len(u) = 0 THEN 0
  ELSE 10 * DigitsValue(SubSeq(u, 1, Len(u) - 1)) + DigitVal(u[Len(u)])

\* int(text), for a text IsIntLiteral accepts.
IntValue(s) ==
  LET t == Strip(s)
  IN IF Len(t) > 0 /\ t[1] = "-" THEN 0 - DigitsValue(Unsigned(t))
     ELSE DigitsValue(Unsigned(t))

----------------------------------------------------------------------------
(* Measurement.                                                            *)

IsError(r) == "error" \in DOMAIN r

PyStr(chars) == [str |-> chars]

\* int(v): an int as it is, a text parsed, anything else (None, a list, a
\* dict) a TypeError.
int_(v) ==
  IF "int" \in DOMAIN v THEN [value |-> v.int]
  ELSE IF "str" \in DOMAIN v
  THEN IF IsIntLiteral(v.str) THEN [value |-> IntValue(v.str)]
       ELSE [error |-> "ValueError"]
  ELSE [error |-> "TypeError"]

NoKwargs == [k \in {} |-> k]

\* Measurement.__init__(sys, dia, pulse, **kwargs): the attributes of the new
\* instance, or the error the first failing int() raises.
Measurement(sys, dia, pulse, kwargs) ==
  LET s == int_(sys)
      d == int_(dia)
      p == int_(pulse)
  IN IF IsError(s) THEN s
     ELSE IF IsError(d) THEN d
     ELSE IF IsError(p) THEN p
     ELSE [sys |-> s.value, dia |-> d.value, pulse |-> p.value] @@ kwargs

\* Measurement(*parts): TypeError unless there are exactly three positional
\* arguments.
MeasurementFromArgs(parts) ==
  IF Len(parts) # 3 THEN [error |-> "TypeError"]
  ELSE Measurement(parts[1], parts[2], parts[3], NoKwargs)

\* Measurement(*token.split(separator)): the arguments are texts.
MeasurementFromParts(parts) ==
  MeasurementFromArgs([k \in 1..Len(parts) |-> PyStr(parts[k])])


----------------------------------------------------------------------------
(* parse_plaintext.                                                        *)

Append_(value) == [do |-> "append", value |-> value]

Continue_ == [do |-> "continue"]

Raise_(msg) == [do |-> "raise", exc |-> BpdiagError(msg)]

\* on_IndexError with the fill forgotten: a missing slot is an error unless
\* all errors are ignored.
on_IndexError_NoFill(a) ==
  IF a.check = Silent THEN Continue_
  ELSE Raise_("not enough measurements on line")

\* on_IndexError with ``check is False`` for ``not check``: silent mode does
\* not fill the missing slots.
on_IndexError_FillLenientOnly(a) ==
  IF a.check = Lenient /\ a.entries # 0 THEN Append_(None)
  ELSE IF a.check = Silent THEN Continue_
  ELSE Raise_("not enough measurements on line")

\* The handler of IndexError: slot i lies beyond the tokens of the line.
on_IndexError(a) ==
  IF NotCheck(a.check) /\ a.entries # 0 THEN Append_(None)
  ELSE IF a.check = Silent THEN Continue_
  ELSE Raise_("not enough measurements on line")

\* on_TypeError with ``not check`` forgotten: skipped entries are stored as
\* None in strict mode too.
on_TypeError_AnyMode(tokens, token, i, a) ==
  IF \/ (Len(a.skip) > 0 /\ token = a.skip)
     \/ (Len(token) = 0 /\ Len(tokens) - 1 = i)
  THEN Append_(None)
  ELSE IF a.check = Silent THEN Continue_
  ELSE Raise_("wrong number of values in token")

\* on_TypeError with the test for a trailing empty token forgotten.
on_TypeError_NoTrailing(tokens, token, i, a) ==
  IF NotCheck(a.check) /\ Len(a.skip) > 0 /\ token = a.skip
  THEN Append_(None)
  ELSE IF a.check = Silent THEN Continue_
  ELSE Raise_("wrong number of values in token")

\* The handler of TypeError: the token at slot i has not three sub-fields.
\* Skipped entry or trailing whitespace?
on_TypeError(tokens, token, i, a) ==
  IF NotCheck(a.check)
     /\ \/ (Len(a.skip) > 0 /\ token = a.skip)
        \/ (Len(token) = 0 /\ Len(tokens) - 1 = i)
  THEN Append_(None)
  ELSE IF a.check = Silent THEN Continue_
  ELSE Raise_("wrong number of values in token")

\* on_ValueError without the test of *check*: it raises in every mode.
on_ValueError_AlwaysRaise(a) == Raise_("can't convert all values to INT")

\* The handler of ValueError: a sub-field of the token is no int.
on_ValueError(a) ==
  IF a.check = Silent THEN Continue_
  ELSE Raise_("can't convert all values to INT")

\* One pass of the loop over the slots of a line: what the pass at slot i
\* (counted from 0) does with line_data.  a is the record of arguments.
slot(tokens, i, a) ==
  IF i >= Len(tokens) THEN on_IndexError(a)
  ELSE LET token == Strip(tokens[i + 1])
           m == MeasurementFromParts(Split(token, a.separator))
       IN IF ~IsError(m) THEN Append_(m)
          ELSE IF m.error = "TypeError" THEN on_TypeError(tokens, token, i, a)
          ELSE on_ValueError(a)

\* The loop over the slots i..n-1 of a line, from the line_data acc: the
\* line_data at the end of the loop, or at the raise that ends it.
RECURSIVE parse_slots(_, _, _, _, _)
parse_slots(tokens, i, n, a, acc) ==
  IF i >= n THEN [exc |-> NoExc, line_data |-> acc]
  ELSE LET r == slot(tokens, i, a)
       IN CASE r.do = "append" -> parse_slots(tokens, i + 1, n, a, Append(acc, r.value))
            [] r.do = "continue" -> parse_slots(tokens, i + 1, n, a, acc)
            [] r.do = "raise" -> [exc |-> r.exc, line_data |-> acc]

\* The slots of one stripped, kept line: split it at the delimiter and run
\* the loop over *entries* slots, or over every token when *entries* is 0.
parse_line(stripped, a) ==
  LET tokens == Split(stripped, a.delimiter)
  IN parse_slots(tokens, 0, IF a.entries # 0 THEN a.entries ELSE Len(tokens), a, <<>>)

\* data.append(line_data) or data.extend(line_data).
collect(d, ld, a) == IF a.align_lines THEN Append(d, [list |-> ld]) ELSE d \o ld

\* The loop over the lines ls, run to its end from the data d: the list
\* returned, or the BpdiagError raised.
RECURSIVE parse_lines(_, _, _)
parse_lines(ls, a, d) ==
  IF Len(ls) = 0 THEN [value |-> d]
  ELSE LET stripped == Strip(ls[1])
       IN IF stripped = <<>> /\ ~a.keep_empty_lines THEN parse_lines(Tail(ls), a, d)
          ELSE LET r == parse_line(stripped, a)
               IN IF r.exc = NoExc
                  THEN parse_lines(Tail(ls), a, collect(d, r.line_data, a))
                  ELSE [exc |-> r.exc]

\* parse_plaintext(lines, **a) as one call.
parse_plaintext(ls, a) == parse_lines(ls, a, <<>>)

\* One pass of the loop over the lines: take the next line, strip it, skip
\* it when it is empty (unless empty lines are kept), else parse its slots
\* and collect them, or end the call with the BpdiagError a slot raises.
plaintext_next_line ==
  /\ pc = "loop"
  /\ consumed < Len(lines)
  /\ consumed' = consumed + 1
  /\ LET stripped == Strip(lines[consumed + 1])
     IN IF stripped = <<>> /\ ~args.keep_empty_lines
        THEN /\ line' = stripped
             /\ line_data' = <<>>
             /\ UNCHANGED <<data, pc, exc>>
        ELSE LET r == parse_line(stripped, args)
             IN /\ line' = stripped
                /\ line_data' = r.line_data
                /\ exc' = r.exc
                /\ IF r.exc = NoExc
                   THEN data' = collect(data, r.line_data, args) /\ pc' = "loop"
                   ELSE data' = data /\ pc' = "raised"
  /\ UNCHANGED <<lines, args, stats, bp_dict, status>>

\* The iterator is exhausted: return data.
plaintext_return ==
  /\ pc = "loop"
  /\ consumed = Len(lines)
  /\ pc' = "returned"
  /\ UNCHANGED <<lines, args, consumed, line, line_data, data, stats, exc, bp_dict, status>>

----------------------------------------------------------------------------
(* The inputs of parse_plaintext.                                          *)

TokOk == <<"1", "/", "2", "/", "3">>        \* 1/2/3
TokSkip == <<" ", "-">>                     \* the default skip marker, padded
TokBlank == <<" ">>                         \* whitespace only
TokNonInt == <<"1", "/", "x", "/", "3">>    \* three sub-fields, one not an int
TokDashes == <<"-", "-">>                   \* the skip marker --
TokDashed == <<"4", "-", "5", "-", "6">>    \* 4-5-6, for the separator -

TokenPool == {TokOk, TokSkip, TokBlank, TokNonInt, TokDashes, TokDashed}

Comma == <<",">>

RECURSIVE Join(_, _)
Join(toks, delim) ==
  IF Len(toks) = 0 THEN <<>>
  ELSE IF Len(toks) = 1 THEN toks[1]
  ELSE toks[1] \o delim \o Join(Tail(toks), delim)

RECURSIVE SeqSum(_)
SeqSum(s) == IF Len(s) = 0 THEN 0 ELSE s[1] + SeqSum(Tail(s))

\* How many tokens each line holds: at most MaxTokens over the whole input.
LineShapes ==
  {sh \in UNION {[1..k -> 1..MaxTokens] : k \in 0..MaxTokens} : SeqSum(sh) <= MaxTokens}

\* The tokens toks laid out on lines of the sizes sh, joined by commas.
Layout(sh, toks) ==
  [j \in 1..Len(sh) |->
     Join(SubSeq(toks, SeqSum(SubSeq(sh, 1, j - 1)) + 1, SeqSum(SubSeq(sh, 1, j))), Comma)]

PlainInputs ==
  UNION {{Layout(sh, toks) : toks \in [1..SeqSum(sh) -> TokenPool]} : sh \in LineShapes}

PlainArgs ==
  [align_lines : BOOLEAN, keep_empty_lines : BOOLEAN, entries : 0..MaxEntries,
   skip : {<<"-">>, <<"-", "-">>}, separator : {<<"/">>, <<"-">>},
   delimiter : {Comma}, check : {Strict, Lenient, Silent}]

InitPlain ==
  /\ lines \in PlainInputs
  /\ args \in PlainArgs
  /\ consumed = 0
  /\ line = <<>>
  /\ line_data = <<>>
  /\ data = <<>>
  /\ stats = NoStats
  /\ bp_dict = <<>>
  /\ status = None
  /\ pc = "loop"
  /\ exc = NoExc

NextPlain ==
  \/ plaintext_next_line
  \/ plaintext_return

SpecPlain == InitPlain /\ [][NextPlain]_vars

----------------------------------------------------------------------------
(* Statistic.                                                              *)

\* Statistic.is_list: isinstance(self.data[0], list); data[0] raises
\* IndexError when data is empty.
is_list(d) ==
  IF Len(d) = 0 THEN [error |-> "IndexError"] ELSE [value |-> IsList(d[1])]

\* itertools.chain.from_iterable over a list of lists.
RECURSIVE chain(_)
chain(d) == IF Len(d) = 0 THEN <<>> ELSE d[1].list \o chain(Tail(d))

\* Statistic.values: the dataset flattened, or the error is_list raises.
values(d) ==
  LET l == is_list(d)
  IN IF IsError(l) THEN l ELSE [value |-> IF l.value THEN chain(d) ELSE d]

\* getattr(measure, attr, None).
getattr(measure, attr) ==
  IF attr \in DOMAIN measure THEN PyInt(measure[attr]) ELSE None

\* The truth value filter(None, ...) keeps: not None, and not the int 0.
Truthy(v) == IF IsNone(v) THEN FALSE ELSE v.int # 0

RECURSIVE SeqMin(_)
SeqMin(s) ==
  IF Len(s) = 1 THEN s[1]
  ELSE LET m == SeqMin(Tail(s)) IN IF s[1] <= m THEN s[1] ELSE m

RECURSIVE SeqMax(_)
SeqMax(s) ==
  IF Len(s) = 1 THEN s[1]
  ELSE LET m == SeqMax(Tail(s)) IN IF s[1] >= m THEN s[1] ELSE m

\* A division that rounds toward zero instead.
IntDiv_TowardZero(a, b) == IF a >= 0 THEN a \div b ELSE -((-a) \div b)

\* Python 2's / on two ints: the floor of the quotient.
IntDiv(a, b) == a \div b

\* field_stats with 0 instead of None when filter(None, ...) keeps nothing.
field_stats_Zero(vals) ==
  LET kept == SelectSeq(vals, Truthy)
      ints == [k \in 1..Len(kept) |-> kept[k].int]
  IN IF Len(kept) > 0
     THEN [min |-> PyInt(SeqMin(ints)), max |-> PyInt(SeqMax(ints)),
           avg |-> PyInt(IntDiv(SeqSum(ints), Len(ints)))]
     ELSE [min |-> PyInt(0), max |-> PyInt(0), avg |-> PyInt(0)]

\* The statistics of one attribute's list: min, max and avg of the values
\* filter(None, ...) keeps, or None for all three when it keeps nothing.
field_stats(vals) ==
  LET kept == SelectSeq(vals, Truthy)
      ints == [k \in 1..Len(kept) |-> kept[k].int]
  IN IF Len(kept) > 0
     THEN [min |-> PyInt(SeqMin(ints)), max |-> PyInt(SeqMax(ints)),
           avg |-> PyInt(IntDiv(SeqSum(ints), Len(ints)))]
     ELSE [min |-> None, max |-> None, avg |-> None]

\* Statistic.evaluate_data: the attributes it sets, or the error it raises.
evaluate_data(d) ==
  LET v == values(d)
  IN IF IsError(v) THEN v
     ELSE LET sys == [k \in 1..Len(v.value) |-> getattr(v.value[k], "sys")]
              dia == [k \in 1..Len(v.value) |-> getattr(v.value[k], "dia")]
              pulse == [k \in 1..Len(v.value) |-> getattr(v.value[k], "pulse")]
          IN [sys |-> sys, dia |-> dia, pulse |-> pulse,
              sys_min |-> field_stats(sys).min, sys_max |-> field_stats(sys).max,
              sys_avg |-> field_stats(sys).avg,
              dia_min |-> field_stats(dia).min, dia_max |-> field_stats(dia).max,
              dia_avg |-> field_stats(dia).avg,
              pulse_min |-> field_stats(pulse).min,
              pulse_max |-> field_stats(pulse).max,
              pulse_avg |-> field_stats(pulse).avg]

\* Statistic(data): keep the data and evaluate it.
Statistic_init ==
  /\ pc = "new"
  /\ LET r == evaluate_data(data)
     IN IF IsError(r)
        THEN /\ pc' = "raised"
             /\ exc' = [type |-> r.error]
             /\ stats' = stats
        ELSE /\ pc' = "constructed"
             /\ exc' = exc
             /\ stats' = r
  /\ UNCHANGED <<lines, args, consumed, line, line_data, data, bp_dict, status>>

\* stats.evaluate_data(), called again on the constructed Statistic.
Statistic_evaluate_data ==
  /\ pc = "constructed"
  /\ LET r == evaluate_data(data)
     IN IF IsError(r)
        THEN /\ pc' = "raised"
             /\ exc' = [type |-> r.error]
             /\ stats' = stats
        ELSE /\ pc' = "evaluated"
             /\ exc' = exc
             /\ stats' = r
  /\ UNCHANGED <<lines, args, consumed, line, line_data, data, bp_dict, status>>

----------------------------------------------------------------------------
(* The datasets handed to Statistic.                                       *)

MeasurementPool ==
  {[sys |-> -3, dia |-> 0, pulse |-> 4],
   [sys |-> 0, dia |-> 1, pulse |-> 4],
   [sys |-> 2, dia |-> 1, pulse |-> 4]}

StatEntries == MeasurementPool \cup {None}

FlatDatasets == UNION {[1..n -> StatEntries] : n \in 0..MaxData}

\* How many entries each row of an aligned dataset holds: at most MaxData
\* rows, and at most MaxData entries over all of them.
RowShapes ==
  {sh \in UNION {[1..k -> 0..MaxData] : k \in 1..MaxData} : SeqSum(sh) <= MaxData}

Rows(sh, es) ==
  [j \in 1..Len(sh) |->
     [list |-> SubSeq(es, SeqSum(SubSeq(sh, 1, j - 1)) + 1, SeqSum(SubSeq(sh, 1, j)))]]

AlignedDatasets ==
  UNION {{Rows(sh, es) : es \in [1..SeqSum(sh) -> StatEntries]} : sh \in RowShapes}

InitStat ==
  /\ data \in FlatDatasets \cup AlignedDatasets
  /\ lines = <<>>
  /\ args = NoArgs
  /\ consumed = 0
  /\ line = <<>>
  /\ line_data = <<>>
  /\ stats = NoStats
  /\ bp_dict = <<>>
  /\ status = None
  /\ pc = "new"
  /\ exc = NoExc

NextStat ==
  \/ Statistic_init
  \/ Statistic_evaluate_data

SpecStat == InitStat /\ [][NextStat]_vars

----------------------------------------------------------------------------
(* What the input lines of parse_plaintext hold, read off the way they     *)
(* were laid out and not through Strip and Split: the yardstick of the     *)
(* properties of parse_plaintext.                                          *)

TokSeqs == UNION {[1..k -> TokenPool] : k \in 1..MaxTokens}

\* The tokens a line of the input was joined from.
TokensOf == [t \in {Join(toks, Comma) : toks \in TokSeqs} |->
               CHOOSE toks \in TokSeqs : Join(toks, Comma) = t]

\* The Measurement a token stands for under a separator, or None when it is
\* not three integers at that separator.
Meaning(tok, sep) ==
  CASE sep = <<"/">> /\ tok = TokOk -> [sys |-> 1, dia |-> 2, pulse |-> 3]
    [] sep = <<"-">> /\ tok = TokDashed -> [sys |-> 4, dia |-> 5, pulse |-> 6]
    [] OTHER -> None

IsValidTok(tok, sep) == ~IsNone(Meaning(tok, sep))

\* The token has three sub-fields at the separator, one of them no integer.
IsNonIntTok(tok, sep) ==
  \/ sep = <<"/">> /\ tok = TokNonInt
  \/ sep = <<"-">> /\ tok = TokDashes

\* The token, trimmed, is the skip marker.
IsSkipTok(tok, skip) ==
  \/ skip = <<"-">> /\ tok = TokSkip
  \/ skip = <<"-", "-">> /\ tok = TokDashes

\* The line is empty or whitespace only.
IsBlankLine(text) == TokensOf[text] = <<TokBlank>>

\* The loop parses the line instead of skipping it.
IsParsed(text) == ~IsBlankLine(text) \/ args.keep_empty_lines

\* The number of slots the loop visits on a line of k tokens.
SlotCount(k) == IF args.entries # 0 THEN args.entries ELSE k

\* The slots of the last line went to the end of data.
Contributed ==
  IF args.align_lines
  THEN Len(data) > 0 /\ data[Len(data)] = [list |-> line_data]
  ELSE /\ Len(data) >= Len(line_data)
       /\ SubSeq(data, Len(data) - Len(line_data) + 1, Len(data)) = line_data

IntMin(a, b) == IF a <= b THEN a ELSE b

\* C1: in lenient mode with entries = N > 0, a line of k tokens whose first
\* min(k, N) tokens are valid a/b/c tokens contributes exactly N slots: the
\* Measurements of its first min(k, N) tokens, in token order, followed by
\* N - k placeholders when k < N.
C1_LenientCapFillsSlots ==
  (consumed > 0 /\ args.check = Lenient /\ args.entries > 0) =>
    LET toks == TokensOf[lines[consumed]]
        k == Len(toks)
        N == args.entries
    IN (\A j \in 1..IntMin(k, N) : IsValidTok(toks[j], args.separator)) =>
         /\ pc # "raised"
         /\ line_data = [j \in 1..N |-> IF j <= k THEN Meaning(toks[j], args.separator)
                                        ELSE None]
         /\ Contributed

\* C1's case: one valid token under entries = 2 gave a Measurement and a
\* placeholder, and two tokens under entries = 1 gave the first only.
C1_Witness ==
  /\ pc = "returned"
  /\ args.check = Lenient
  /\ \/ /\ args.entries = 2
        /\ lines = <<TokOk>>
        /\ data = <<[sys |-> 1, dia |-> 2, pulse |-> 3], None>>
     \/ /\ args.entries = 1
        /\ lines = <<Join(<<TokOk, TokNonInt>>, Comma)>>
        /\ data = <<[sys |-> 1, dia |-> 2, pulse |-> 3]>>

\* C2 as claimed: in lenient and silent mode, on a line whose tokens are
\* valid tokens and skip markers, no slot raises and every visited token that
\* equals the skip marker after trimming gives None in its own slot (missing
\* slots under a cap give None as well).
C2_SkipMarkerIsPlaceholder ==
  (consumed > 0 /\ args.check \in {Lenient, Silent}) =>
    LET toks == TokensOf[lines[consumed]]
        k == Len(toks)
        n == SlotCount(k)
    IN (\A j \in 1..k : IsValidTok(toks[j], args.separator) \/ IsSkipTok(toks[j], args.skip)) =>
         /\ pc # "raised"
         /\ line_data = [j \in 1..n |->
                           IF j > k \/ IsSkipTok(toks[j], args.skip) THEN None
                           ELSE Meaning(toks[j], args.separator)]

\* The first slot of a line that strict mode takes for an error: a token that
\* is not three integers (the skip marker and the empty token among them),
\* or a slot beyond the tokens; 0 when the line has none.
RECURSIVE FirstBadSlot(_, _, _)
FirstBadSlot(toks, j, n) ==
  IF j > n THEN 0
  ELSE IF j > Len(toks) \/ ~IsValidTok(toks[j], args.separator) THEN j
  ELSE FirstBadSlot(toks, j + 1, n)

HasBadSlot(text) ==
  IsParsed(text) /\ FirstBadSlot(TokensOf[text], 1, SlotCount(Len(TokensOf[text]))) # 0

\* C3: in strict mode the call raises BpdiagError at the first slot whose
\* token has the wrong sub-field count, a non-integer sub-field, equals the
\* skip marker or is missing under a cap: the slots before it were
\* Measurements, nothing of the line is collected, no result is returned,
\* and no line after that one is taken from the input.
C3_StrictFailsFast ==
  args.check = Strict =>
    /\ \A l \in 1..(consumed - 1) : ~HasBadSlot(lines[l])
    /\ (consumed > 0 /\ HasBadSlot(lines[consumed])) =>
         LET toks == TokensOf[lines[consumed]]
             bad == FirstBadSlot(toks, 1, SlotCount(Len(toks)))
         IN /\ pc = "raised"
            /\ exc.type = "BpdiagError"
            /\ line_data = [j \in 1..(bad - 1) |-> Meaning(toks[j], args.separator)]
            /\ \A e \in 1..Len(data) :
                 IF args.align_lines THEN \A x \in 1..Len(data[e].list) : ~IsNone(data[e].list[x])
                 ELSE ~IsNone(data[e])
    /\ pc = "raised" => consumed > 0 /\ HasBadSlot(lines[consumed])
    /\ pc = "returned" => \A l \in 1..Len(lines) : ~HasBadSlot(lines[l])

\* C3's case: strict mode raised on the first line, a skip marker, and left
\* the second line in the input.
C3_Witness ==
  /\ args.check = Strict
  /\ args.skip = <<"-">>
  /\ args.separator = <<"/">>
  /\ lines = <<TokSkip, TokOk>>
  /\ pc = "raised"
  /\ exc.type = "BpdiagError"
  /\ consumed = 1
  /\ data = <<>>

\* What silent mode collects for the token at slot j of a line of k tokens:
\* the Measurement of a valid token, None for a skip marker or a trailing
\* empty token (if these have the wrong sub-field count), and nothing for
\* any other token.
SilentSlot(toks, j) ==
  IF j > Len(toks) THEN <<None>>
  ELSE IF IsValidTok(toks[j], args.separator) THEN <<Meaning(toks[j], args.separator)>>
  ELSE IF IsNonIntTok(toks[j], args.separator) THEN <<>>
  ELSE IF IsSkipTok(toks[j], args.skip) \/ (toks[j] = TokBlank /\ j = Len(toks))
  THEN <<None>>
  ELSE <<>>

RECURSIVE SilentSlots(_, _, _)
SilentSlots(toks, j, n) ==
  IF j > n THEN <<>> ELSE SilentSlot(toks, j) \o SilentSlots(toks, j + 1, n)

\* Every token of the line is malformed and tolerated by silent mode only.
OnlyMalformed(text) ==
  LET toks == TokensOf[text]
  IN \A j \in 1..Len(toks) : SilentSlot(toks, j) = <<>>

----------------------------------------------------------------------------
(* Properties of Statistic.                                                *)

\* The slots of a dataset, row after row when it is line-aligned.
RECURSIVE Slots(_)
Slots(d) ==
  IF Len(d) = 0 THEN <<>>
  ELSE (IF IsList(d[1]) THEN d[1].list ELSE <<d[1]>>) \o Slots(Tail(d))

\* The values of one field over the Measurement entries of the dataset.
FieldValues(d, f) ==
  LET ms == SelectSeq(Slots(d), IsMeasurement)
  IN [k \in 1..Len(ms) |-> ms[k][f]]

Constructed == pc \in {"constructed", "evaluated"}

\* C5 as claimed: for a dataset with at least one Measurement, the min, max
\* and avg of each field are the minimum, the maximum and the integer average
\* of that field over all Measurement entries of the flattened dataset, a
\* value of 0 included, the placeholders left out.
C5_StatsOverAllMeasurements ==
  (pc # "new" /\ Len(FieldValues(data, "sys")) > 0) =>
    /\ Constructed
    /\ \A f \in {"sys", "dia", "pulse"} :
         LET vs == FieldValues(data, f)
         IN /\ stats[f \o "_min"] = PyInt(SeqMin(vs))
            /\ stats[f \o "_max"] = PyInt(SeqMax(vs))
            /\ stats[f \o "_avg"] = PyInt(SeqSum(vs) \div Len(vs))

\* C6: building a Statistic from a non-empty dataset, flat or line-aligned,
\* whose slots are all placeholders raises nothing and leaves the min, max
\* and avg of sys, dia and pulse None.
C6_AllPlaceholdersGiveNone ==
  (pc # "new" /\ Len(data) > 0 /\ \A k \in 1..Len(Slots(data)) : IsNone(Slots(data)[k])) =>
    /\ Constructed
    /\ exc = NoExc
    /\ \A f \in {"sys", "dia", "pulse"} :
         /\ stats[f \o "_min"] = None
         /\ stats[f \o "_max"] = None
         /\ stats[f \o "_avg"] = None

\* C6's case: a Statistic was built from two rows of placeholders.
C6_Witness ==
  /\ data = <<[list |-> <<None>>], [list |-> <<None, None>>]>>
  /\ pc = "constructed"
  /\ stats.sys = <<None, None, None>>
  /\ stats.sys_avg = None

\* C7 as claimed: Statistic([]), and evaluate_data() called on it again,
\* raise nothing and leave the sys, dia and pulse lists empty.
C7_EmptyDatasetNoError ==
  (data = <<>> /\ pc # "new") =>
    /\ pc # "raised"
    /\ stats.sys = <<>> /\ stats.dia = <<>> /\ stats.pulse = <<>>

----------------------------------------------------------------------------
(* JSON text and json.loads / json.dumps.                                  *)
(*                                                                         *)
(* JSON text is a sequence of tokens: the six punctuation marks and the    *)
(* scalars, an int [int |-> n], a string [str |-> chars] and null (None).  *)
(* A decoded array is [list |-> <<...>>] and a decoded object              *)
(* [dict |-> <<[k |-> chars, v |-> value], ...>>].                         *)

LBracket == [p |-> "["]
RBracket == [p |-> "]"]
LBrace == [p |-> "{"]
RBrace == [p |-> "}"]
CommaTok == [p |-> ","]
ColonTok == [p |-> ":"]

IsScalarTok(t) == "int" \in DOMAIN t \/ "str" \in DOMAIN t \/ "none" \in DOMAIN t

IsDict(v) == "dict" \in DOMAIN v

IsStr(v) == "str" \in DOMAIN v

IsTuple(v) == "tuple" \in DOMAIN v

JsonFail == [ok |-> FALSE]

JsonOk(v, next) == [ok |-> TRUE, value |-> v, next |-> next]

TokAt(t, i) == IF i <= Len(t) THEN t[i] ELSE [p |-> "end"]

\* The decoder: the value that starts at token i and the place after it.
RECURSIVE json_value(_, _)
RECURSIVE json_items(_, _, _)
RECURSIVE json_members(_, _, _)
json_value(t, i) ==
  IF i > Len(t) THEN JsonFail
  ELSE IF IsScalarTok(t[i]) THEN JsonOk(t[i], i + 1)
  ELSE IF t[i] = LBracket
  THEN IF TokAt(t, i + 1) = RBracket THEN JsonOk([list |-> <<>>], i + 2)
       ELSE json_items(t, i + 1, <<>>)
  ELSE IF t[i] = LBrace
  THEN IF TokAt(t, i + 1) = RBrace THEN JsonOk([dict |-> <<>>], i + 2)
       ELSE json_members(t, i + 1, <<>>)
  ELSE JsonFail

json_items(t, i, acc) ==
  LET r == json_value(t, i)
  IN IF ~r.ok THEN JsonFail
     ELSE IF TokAt(t, r.next) = CommaTok
     THEN json_items(t, r.next + 1, Append(acc, r.value))
     ELSE IF TokAt(t, r.next) = RBracket
     THEN JsonOk([list |-> Append(acc, r.value)], r.next + 1)
     ELSE JsonFail

json_members(t, i, acc) ==
  IF ~(IsStr(TokAt(t, i)) /\ TokAt(t, i + 1) = ColonTok) THEN JsonFail
  ELSE LET r == json_value(t, i + 2)
       IN IF ~r.ok THEN JsonFail
          ELSE LET more == Append(acc, [k |-> t[i].str, v |-> r.value])
               IN IF TokAt(t, r.next) = CommaTok THEN json_members(t, r.next + 1, more)
                  ELSE IF TokAt(t, r.next) = RBrace
                  THEN JsonOk([dict |-> more], r.next + 1)
                  ELSE JsonFail

\* json.loads(text): the decoded document, or ValueError unless the text is
\* exactly one JSON value.
json_loads(t) ==
  LET r == json_value(t, 1)
  IN IF r.ok /\ r.next = Len(t) + 1 THEN [value |-> r.value]
     ELSE [error |-> "ValueError"]

\* json.dumps(v): the text of a value; a tuple is written as an array, like
\* a list.
RECURSIVE json_dumps(_)
RECURSIVE dumps_items(_)
RECURSIVE dumps_members(_)
json_dumps(v) ==
  IF IsList(v) THEN <<LBracket>> \o dumps_items(v.list) \o <<RBracket>>
  ELSE IF IsTuple(v) THEN <<LBracket>> \o dumps_items(v.tuple) \o <<RBracket>>
  ELSE IF IsDict(v) THEN <<LBrace>> \o dumps_members(v.dict) \o <<RBrace>>
  ELSE <<v>>

dumps_items(vs) ==
  IF Len(vs) = 0 THEN <<>>
  ELSE IF Len(vs) = 1 THEN json_dumps(vs[1])
  ELSE json_dumps(vs[1]) \o <<CommaTok>> \o dumps_items(Tail(vs))

dumps_members(ms) ==
  IF Len(ms) = 0 THEN <<>>
  ELSE LET first == <<PyStr(ms[1].k), ColonTok>> \o json_dumps(ms[1].v)
       IN IF Len(ms) = 1 THEN first
          ELSE first \o <<CommaTok>> \o dumps_members(Tail(ms))

\* ''.join(lines).
RECURSIVE join_lines(_)
join_lines(ls) == IF Len(ls) = 0 THEN <<>> ELSE ls[1] \o join_lines(Tail(ls))

----------------------------------------------------------------------------
(* parse_json.                                                             *)

\* iter(v), as the calls f(*v) and ``for entry in v`` run it: the items of a
\* list, the keys of a dict, the characters of a string; TypeError for an
\* int or None.
iter_(v) ==
  IF IsList(v) THEN [value |-> v.list]
  ELSE IF IsDict(v) THEN [value |-> [k \in 1..Len(v.dict) |-> PyStr(v.dict[k].k)]]
  ELSE IF IsStr(v) THEN [value |-> [k \in 1..Len(v.str) |-> PyStr(<<v.str[k]>>)]]
  ELSE [error |-> "TypeError"]

KeySys == <<"s", "y", "s">>
KeyDia == <<"d", "i", "a">>
KeyPulse == <<"p", "u", "l", "s", "e">>
KeyDate == <<"d", "a", "t", "e">>
KeyTime == <<"t", "i", "m", "e">>

\* The attribute a keyword names.
AttrName(chars) ==
  CASE chars = KeySys -> "sys"
    [] chars = KeyDia -> "dia"
    [] chars = KeyPulse -> "pulse"
    [] chars = KeyDate -> "date"
    [] chars = KeyTime -> "time"

DictKeys(v) == {v.dict[k].k : k \in 1..Len(v.dict)}

\* dict[key].
DictGet(v, key) == v.dict[CHOOSE k \in 1..Len(v.dict) : v.dict[k].k = key].v

\* Measurement(**entry) with the loop over kwargs forgotten: the keys other
\* than sys, dia and pulse are dropped.
MeasurementFromKwargs_NoExtras(entry) ==
  IF ~IsDict(entry) THEN [error |-> "TypeError"]
  ELSE IF ~({KeySys, KeyDia, KeyPulse} \subseteq DictKeys(entry))
  THEN [error |-> "TypeError"]
  ELSE Measurement(DictGet(entry, KeySys), DictGet(entry, KeyDia),
                   DictGet(entry, KeyPulse), NoKwargs)

\* Measurement(**entry): TypeError unless entry is a mapping that names sys,
\* dia and pulse; its other keys become attributes of the instance.
MeasurementFromKwargs(entry) ==
  IF ~IsDict(entry) THEN [error |-> "TypeError"]
  ELSE IF ~({KeySys, KeyDia, KeyPulse} \subseteq DictKeys(entry))
  THEN [error |-> "TypeError"]
  ELSE LET others == DictKeys(entry) \ {KeySys, KeyDia, KeyPulse}
       IN Measurement(DictGet(entry, KeySys), DictGet(entry, KeyDia),
                      DictGet(entry, KeyPulse),
                      [n \in {AttrName(k) : k \in others} |->
                         DictGet(entry, CHOOSE k \in others : AttrName(k) = n)])

\* Measurement(*entry): TypeError unless entry can be iterated and gives
\* three arguments.
MeasurementFromIterable(entry) ==
  LET it == iter_(entry)
  IN IF IsError(it) THEN it ELSE MeasurementFromArgs(it.value)

\* The list comprehension over the entries of the document: the list of
\* Measurements, or the error the first failing entry raises.
RECURSIVE comprehension(_, _, _)
comprehension(entries, as_obj, acc) ==
  IF Len(entries) = 0 THEN [value |-> acc]
  ELSE LET m == IF as_obj THEN MeasurementFromKwargs(entries[1])
                ELSE MeasurementFromIterable(entries[1])
       IN IF IsError(m) THEN m
          ELSE comprehension(Tail(entries), as_obj, Append(acc, m))

\* The try block of parse_json: decode the joined lines and build the list.
parse_json_try(ls, as_obj) ==
  LET doc == json_loads(join_lines(ls))
  IN IF IsError(doc) THEN doc
     ELSE LET it == iter_(doc.value)
          IN IF IsError(it) THEN it ELSE comprehension(it.value, as_obj, <<>>)

\* parse_json: the except clause catches ValueError only.
parse_json_call(ls, a) ==
  LET r == parse_json_try(ls, a.as_obj)
  IN IF ~IsError(r) THEN r
     ELSE IF r.error = "ValueError"
     THEN IF a.check = Silent THEN [value |-> <<>>]
          ELSE [exc |-> BpdiagError("json")]
     ELSE [exc |-> [type |-> r.error]]

parse_json ==
  /\ pc = "call"
  /\ LET r == parse_json_call(lines, args)
     IN IF "exc" \in DOMAIN r
        THEN pc' = "raised" /\ exc' = r.exc /\ data' = data
        ELSE pc' = "returned" /\ exc' = exc /\ data' = r.value
  /\ consumed' = Len(lines)
  /\ UNCHANGED <<lines, args, line, line_data, stats, bp_dict, status>>

----------------------------------------------------------------------------
(* The inputs of parse_json.                                               *)

Obj(s, d, p) == [dict |-> <<[k |-> KeySys, v |-> s], [k |-> KeyDia, v |-> d],
                            [k |-> KeyPulse, v |-> p]>>]

ElemOk == [list |-> <<PyInt(3), PyInt(2), PyInt(1)>>]
ElemShort == [list |-> <<PyInt(1), PyInt(2)>>]
ElemLong == [list |-> <<PyInt(1), PyInt(2), PyInt(3), PyInt(4)>>]
ElemText == [list |-> <<PyInt(1), PyStr(<<"x">>), PyInt(3)>>]
ElemNull == [list |-> <<PyInt(1), None, PyInt(3)>>]
ObjOk == Obj(PyInt(1), PyInt(2), PyInt(3))
ObjDate == [dict |-> ObjOk.dict \o <<[k |-> KeyDate, v |-> PyStr(<<"d">>)]>>]
ObjShort == [dict |-> SubSeq(ObjOk.dict, 1, 2)]
ObjText == Obj(PyStr(<<"x">>), PyInt(2), PyInt(3))

JsonElems ==
  {ElemOk, ElemShort, ElemLong, ElemText, ElemNull, ObjOk, ObjDate, ObjShort, ObjText}

\* The documents: arrays of at most MaxElems elements, and a number.
JsonDocs ==
  {[list |-> es] : es \in UNION {[1..n -> JsonElems] : n \in 0..MaxElems}}
    \cup {PyInt(5)}

\* The texts: each document, and each document cut short by its last token.
JsonTexts ==
  {json_dumps(d) : d \in JsonDocs}
    \cup {SubSeq(json_dumps(d), 1, Len(json_dumps(d)) - 1) : d \in JsonDocs}

\* A text as the lines of the input: in one line, or cut in two in the middle.
Chunks(t) ==
  {<<t>>, <<SubSeq(t, 1, Len(t) \div 2), SubSeq(t, Len(t) \div 2 + 1, Len(t))>>}
    \cup (IF Len(t) = 0 THEN {<<>>} ELSE {})

JsonArgs == [as_obj : BOOLEAN, check : {Strict, Lenient, Silent}]

InitJson ==
  /\ lines \in UNION {Chunks(t) : t \in JsonTexts}
  /\ args \in JsonArgs
  /\ consumed = 0
  /\ line = <<>>
  /\ line_data = <<>>
  /\ data = <<>>
  /\ stats = NoStats
  /\ bp_dict = <<>>
  /\ status = None
  /\ pc = "call"
  /\ exc = NoExc

NextJson == parse_json

SpecJson == InitJson /\ [][NextJson]_vars

----------------------------------------------------------------------------
(* Properties of parse_json.                                               *)

\* Each document with the text it was written to.
Written == {<<json_dumps(d), d>> : d \in JsonDocs}

\* The document a text of the input was written from, or None for a text
\* that was cut short.
DocOf == [t \in JsonTexts |->
            IF \E w \in Written : w[1] = t
            THEN (CHOOSE w \in Written : w[1] = t)[2]
            ELSE None]

\* The element is malformed for the mode: it has fewer or more than three
\* values, or a value that is no integer.
IsMalformedElem(e, as_obj) ==
  IF as_obj THEN e \in {ObjShort, ObjText}
  ELSE e \in {ElemShort, ElemLong, ElemText, ElemNull}

\* The input is not valid JSON, or not an array, or holds a malformed element.
IsMalformedInput ==
  LET d == DocOf[join_lines(lines)]
  IN \/ IsNone(d)
     \/ ~IsList(d)
     \/ \E k \in 1..Len(d.list) : IsMalformedElem(d.list[k], args.as_obj)

\* C8 as claimed: on text that is not valid JSON, or whose elements are
\* malformed, strict and lenient mode raise BpdiagError and silent mode
\* returns the empty list without raising anything.
C8_MalformedJson ==
  (pc # "call" /\ IsMalformedInput) =>
    IF args.check = Silent THEN pc = "returned" /\ data = <<>>
    ELSE pc = "raised" /\ exc.type = "BpdiagError"

----------------------------------------------------------------------------
(* parse_regex.                                                            *)

\* The patterns: the default one, the pattern ^30 of the tests, which names
\* no group, and a pattern with the three groups that takes any word for a
\* value: (?P<sys>\w+)/(?P<dia>\w+)/(?P<pulse>\w+).
RegexDefault == "def_regex"
RegexCaret30 == "^30"
RegexWords == "words"

LineBlank == <<" ">>
LineOk == <<" ", "1", "2", "/", "3", "4", "/", "5", "6">>
LineWord == <<"a", "b">>
Line3070 == <<" ", "3", "0", "7", "0">>
LineWords == <<"a", "b", "/", "1", "2", "/", "3", "4">>

Group(key, value) == [k |-> key, v |-> value]

NoMatch == [nomatch |-> TRUE]

\* regex.search(line): NoMatch, or the groupdict() of the match, on the
\* stripped lines of the input.
regex_search(regex, stripped) ==
  CASE regex = RegexDefault /\ stripped = Strip(LineOk) ->
         [dict |-> <<Group(KeyDate, None), Group(KeyTime, None),
                     Group(KeySys, PyStr(<<"1", "2">>)),
                     Group(KeyDia, PyStr(<<"3", "4">>)),
                     Group(KeyPulse, PyStr(<<"5", "6">>))>>]
    [] regex = RegexWords /\ stripped = Strip(LineOk) ->
         [dict |-> <<Group(KeySys, PyStr(<<"1", "2">>)),
                     Group(KeyDia, PyStr(<<"3", "4">>)),
                     Group(KeyPulse, PyStr(<<"5", "6">>))>>]
    [] regex = RegexWords /\ stripped = LineWords ->
         [dict |-> <<Group(KeySys, PyStr(<<"a", "b">>)),
                     Group(KeyDia, PyStr(<<"1", "2">>)),
                     Group(KeyPulse, PyStr(<<"3", "4">>))>>]
    [] regex = RegexCaret30 /\ stripped = Strip(Line3070) -> [dict |-> <<>>]
    [] OTHER -> NoMatch

\* The body of the loop for one non-empty line: what is appended to data,
\* or the exception that ends the call.  The except clause catches
\* TypeError only.
regex_line(stripped, a) ==
  LET m == regex_search(a.regex, stripped)
  IN IF m = NoMatch
     THEN IF a.check = Silent THEN [value |-> None]
          ELSE [exc |-> BpdiagError("no match on line")]
     ELSE LET r == MeasurementFromKwargs(m)
          IN IF ~IsError(r) THEN [value |-> r]
             ELSE IF r.error = "TypeError"
             THEN IF a.check = Silent THEN [value |-> None]
                  ELSE [exc |-> BpdiagError("missing SYS, DIA and / or PULSE values on line")]
             ELSE [exc |-> [type |-> r.error]]

\* One step of the loop over the stripped lines, the empty ones filtered out.
regex_next_line ==
  /\ pc = "loop"
  /\ consumed < Len(lines)
  /\ consumed' = consumed + 1
  /\ LET stripped == Strip(lines[consumed + 1])
     IN IF stripped = <<>> THEN UNCHANGED <<data, pc, exc>>
        ELSE LET r == regex_line(stripped, args)
             IN IF "exc" \in DOMAIN r
                THEN pc' = "raised" /\ exc' = r.exc /\ data' = data
                ELSE pc' = "loop" /\ exc' = exc /\ data' = Append(data, r.value)
  /\ UNCHANGED <<lines, args, line, line_data, stats, bp_dict, status>>

regex_return ==
  /\ pc = "loop"
  /\ consumed = Len(lines)
  /\ pc' = "returned"
  /\ UNCHANGED <<lines, args, consumed, line, line_data, data, stats, exc, bp_dict, status>>

RegexLines == {LineBlank, LineOk, LineWord, Line3070, LineWords}

RegexArgs ==
  [regex : {RegexDefault, RegexCaret30, RegexWords}, check : {Strict, Lenient, Silent}]

InitRegex ==
  /\ lines \in UNION {[1..n -> RegexLines] : n \in 0..MaxLines}
  /\ args \in RegexArgs
  /\ consumed = 0
  /\ line = <<>>
  /\ line_data = <<>>
  /\ data = <<>>
  /\ stats = NoStats
  /\ bp_dict = <<>>
  /\ status = None
  /\ pc = "loop"
  /\ exc = NoExc

NextRegex ==
  \/ regex_next_line
  \/ regex_return

SpecRegex == InitRegex /\ [][NextRegex]_vars

----------------------------------------------------------------------------
(* Properties of parse_regex.                                              *)

\* The line does not match the pattern, or matches without a sys, dia or
\* pulse group.
IsUnmatched(text) ==
  \/ text = LineWord
  \/ text = LineOk /\ args.regex = RegexCaret30
  \/ text = Line3070
  \/ text = LineWords /\ args.regex # RegexWords

NonBlank(ls) == SelectSeq(ls, LAMBDA t : t # LineBlank)

\* C9 as claimed: empty and whitespace-only lines add nothing; on a
\* non-empty line that does not match, or lacks a sys, dia or pulse group,
\* strict and lenient mode raise BpdiagError and silent mode appends one
\* None and goes on; so silent mode never raises, and its result has one slot
\* for each non-empty line, in the order of the lines.
C9_RegexUnmatchedLines ==
  /\ (consumed > 0 /\ lines[consumed] = LineBlank) => pc # "raised"
  /\ (consumed > 0 /\ IsUnmatched(lines[consumed])) =>
       IF args.check = Silent
       THEN pc # "raised" /\ Len(data) > 0 /\ data[Len(data)] = None
       ELSE pc = "raised" /\ exc.type = "BpdiagError"
  /\ args.check = Silent =>
       /\ pc # "raised"
       /\ LET seen == NonBlank(SubSeq(lines, 1, consumed))
          IN /\ Len(data) = Len(seen)
             /\ \A k \in 1..Len(seen) : IsNone(data[k]) <=> IsUnmatched(seen[k])

----------------------------------------------------------------------------
(* parse_csv.                                                              *)

\* csv.DictReader(lines, fieldnames, restkey='extra', delimiter=delimiter):
\* a reader object; it reads no line before it is iterated.
DictReader(ls, fieldnames, delimiter) ==
  [reader |-> [lines |-> ls, fieldnames |-> fieldnames, restkey |-> "extra",
               delimiter |-> delimiter]]

\* parse_csv: the list display holds one expression, Measurement(**reader),
\* and the reader is no mapping.
parse_csv_call(ls, a) ==
  LET m == MeasurementFromKwargs(DictReader(ls, a.fieldnames, a.delimiter))
  IN IF IsError(m) THEN [exc |-> [type |-> m.error]] ELSE [value |-> <<m>>]

parse_csv ==
  /\ pc = "call"
  /\ LET r == parse_csv_call(lines, args)
     IN IF "exc" \in DOMAIN r
        THEN pc' = "raised" /\ exc' = r.exc /\ data' = data
        ELSE pc' = "returned" /\ exc' = exc /\ data' = r.value
  /\ UNCHANGED <<lines, args, consumed, line, line_data, stats, bp_dict, status>>

CsvValues == {<<"7">>, <<"8", "1">>}

\* The records: two to four values, joined by commas.
CsvFields == UNION {[1..n -> CsvValues] : n \in 2..4}

CsvRecords == {Join(fs, Comma) : fs \in CsvFields}

CsvArgs ==
  [fieldnames : {<<"sys", "dia", "pulse">>, <<"pulse", "sys", "dia">>},
   delimiter : {Comma}]

InitCsv ==
  /\ lines \in UNION {[1..n -> CsvRecords] : n \in 0..MaxRecords}
  /\ args \in CsvArgs
  /\ consumed = 0
  /\ line = <<>>
  /\ line_data = <<>>
  /\ data = <<>>
  /\ stats = NoStats
  /\ bp_dict = <<>>
  /\ status = None
  /\ pc = "call"
  /\ exc = NoExc

NextCsv == parse_csv

SpecCsv == InitCsv /\ [][NextCsv]_vars

----------------------------------------------------------------------------
(* Properties of parse_csv.                                                *)

\* The values a record of the input was joined from.
FieldsOf == [t \in CsvRecords |-> CHOOSE fs \in CsvFields : Join(fs, Comma) = t]

Index(names, n) == CHOOSE k \in 1..Len(names) : names[k] = n

\* The attributes of the Measurement a record stands for: each value under
\* the field name at its place, as an int for sys, dia and pulse; the values
\* beyond the names under extra.  None when the record lacks sys, dia or
\* pulse.
RecordMeasurement(text, names) ==
  LET fs == FieldsOf[text]
  IN IF Len(fs) < Len(names) THEN None
     ELSE LET core == [n \in {"sys", "dia", "pulse"} |-> IntValue(fs[Index(names, n)])]
          IN IF Len(fs) = Len(names) THEN core
             ELSE core @@ [extra |-> [list |-> [k \in 1..(Len(fs) - Len(names)) |->
                                                  PyStr(fs[Len(names) + k])]]]

\* C10 as claimed: given n records and field names that include sys, dia
\* and pulse, parse_csv returns a list of exactly n Measurements, the i-th
\* built from the values of the i-th record, mapped by position onto the
\* field names.
C10_CsvOnePerRecord ==
  (pc # "call" /\ \A i \in 1..Len(lines) : ~IsNone(RecordMeasurement(lines[i], args.fieldnames))) =>
    /\ pc = "returned"
    /\ Len(data) = Len(lines)
    /\ \A i \in 1..Len(lines) : data[i] = RecordMeasurement(lines[i], args.fieldnames)

----------------------------------------------------------------------------
(* Further properties of parse_plaintext.                                  *)

\* The lines among the first n of the input that the loop parses.
Processed(n) == {l \in 1..n : IsParsed(lines[l])}

\* C11 as claimed: with entries = N > 0, in every mode, each line the loop
\* parses without raising contributes exactly N slots; so a returned flat
\* result holds N slots for each parsed line, its length a multiple of N, and
\* every sub-list of a returned aligned result has length N.
C11_CapSlotsEveryLine ==
  args.entries > 0 =>
    /\ (consumed > 0 /\ pc # "raised" /\ IsParsed(lines[consumed])) =>
         Len(line_data) = args.entries /\ Contributed
    /\ pc = "returned" =>
         IF args.align_lines
         THEN \A e \in 1..Len(data) : Len(data[e].list) = args.entries
         ELSE /\ Len(data) % args.entries = 0
              /\ Len(data) = args.entries * Cardinality(Processed(Len(lines)))

\* C12 as claimed: in lenient mode with align_lines on and entries unset,
\* the result holds one sub-list for each line the loop parses, at the place
\* of the line; with keep_empty_lines on, an empty or whitespace-only line
\* is the empty sub-list there, and with keep_empty_lines off it adds no
\* sub-list.
C12_EmptyLinesAligned ==
  (args.align_lines /\ args.check = Lenient /\ args.entries = 0) =>
    /\ pc # "raised" => Len(data) = Cardinality(Processed(consumed))
    /\ (consumed > 0 /\ IsBlankLine(lines[consumed]) /\ args.keep_empty_lines) =>
         /\ pc # "raised"
         /\ data[Len(data)] = [list |-> <<>>]

\* The Measurements of the valid tokens among toks, in token order.
RECURSIVE MeasurementsOf(_)
MeasurementsOf(toks) ==
  IF Len(toks) = 0 THEN <<>>
  ELSE (IF IsValidTok(toks[1], args.separator) THEN <<Meaning(toks[1], args.separator)>>
        ELSE <<>>) \o MeasurementsOf(Tail(toks))

\* The Measurements of the valid tokens of the first n lines, in input order.
RECURSIVE MeasurementsUpTo(_)
MeasurementsUpTo(n) ==
  IF n = 0 THEN <<>>
  ELSE MeasurementsUpTo(n - 1) \o MeasurementsOf(TokensOf[lines[n]])

\* The options of parse_plaintext are the defaults.
DefaultOptions ==
  /\ ~args.align_lines
  /\ ~args.keep_empty_lines
  /\ args.entries = 0
  /\ args.skip = <<"-">>
  /\ args.separator = <<"/">>
  /\ args.check = Lenient

\* C13 as claimed: with the default options, on lines of valid tokens and
\* skip markers, the tokens equal to the skip marker are left out: nothing
\* raises and the flat result holds the Measurements of the valid tokens
\* only, in input order, and no None.
C13_DefaultSkipLeftOut ==
  (/\ DefaultOptions
   /\ \A l \in 1..consumed : \A j \in 1..Len(TokensOf[lines[l]]) :
        \/ IsValidTok(TokensOf[lines[l]][j], args.separator)
        \/ IsSkipTok(TokensOf[lines[l]][j], args.skip)) =>
    /\ pc # "raised"
    /\ data = MeasurementsUpTo(consumed)
    /\ \A e \in 1..Len(data) : ~IsNone(data[e])

----------------------------------------------------------------------------
(* Measurements written to JSON and parsed again, as test_parse_json does. *)

\* The keyword that names an attribute.
KeyOf(name) ==
  CASE name = "sys" -> KeySys
    [] name = "dia" -> KeyDia
    [] name = "pulse" -> KeyPulse
    [] name = "date" -> KeyDate
    [] name = "time" -> KeyTime

\* Measurement.as_tuple().
as_tuple(m) == <<m.sys, m.dia, m.pulse>>

\* Measurement.as_dict(): a copy of the attribute dictionary.
as_dict(m) ==
  LET names == <<"sys", "dia", "pulse">>
                 \o SelectSeq(<<"date", "time">>, LAMBDA n : n \in DOMAIN m)
  IN [dict |-> [k \in 1..Len(names) |->
                  [k |-> KeyOf(names[k]),
                   v |-> IF names[k] \in {"sys", "dia", "pulse"}
                         THEN PyInt(m[names[k]]) ELSE m[names[k]]]]]

\* json_obj_str = json.dumps(bp_dict), handed to parse_json as its lines.
dumps_bp_dict ==
  /\ pc = "dumps"
  /\ lines' = <<json_dumps([list |-> bp_dict])>>
  /\ pc' = "call"
  /\ UNCHANGED <<args, consumed, line, line_data, data, stats, exc, bp_dict, status>>

\* The extra attributes of the Measurements: none, a date, a time as a list
\* and as a tuple of hour and minute, a date and no time.
ExtraKwargs ==
  {NoKwargs,
   [date |-> PyStr(<<"d">>)],
   [time |-> [list |-> <<PyInt(13), PyInt(12)>>]],
   [time |-> [tuple |-> <<PyInt(13), PyInt(12)>>]],
   [date |-> PyStr(<<"d">>), time |-> None]}

RoundTripPool ==
  {Measurement(PyInt(c[1]), PyInt(c[2]), PyInt(c[3]), kw) :
     c \in {<<1, 2, 3>>, <<-3, 0, 4>>}, kw \in ExtraKwargs}

InitRoundTrip ==
  /\ bp_dict \in {[k \in 1..Len(ms) |-> as_dict(ms[k])] :
                    ms \in UNION {[1..n -> RoundTripPool] : n \in 0..MaxMeasurements}}
  /\ args \in [as_obj : {TRUE}, check : {Strict, Lenient, Silent}]
  /\ lines = <<>>
  /\ consumed = 0
  /\ line = <<>>
  /\ line_data = <<>>
  /\ data = <<>>
  /\ stats = NoStats
  /\ pc = "dumps"
  /\ exc = NoExc
  /\ status = None

NextRoundTrip ==
  \/ dumps_bp_dict
  \/ parse_json

SpecRoundTrip == InitRoundTrip /\ [][NextRoundTrip]_vars

----------------------------------------------------------------------------
(* Properties of the round trip.                                           *)

\* The items of a dictionary: two dictionaries are equal when these are.
DictItems(d) == {<<d.dict[k].k, d.dict[k].v>> : k \in 1..Len(d.dict)}

\* The sys, dia and pulse a dictionary of attributes holds.
TupleOf(d) == <<DictGet(d, KeySys).int, DictGet(d, KeyDia).int, DictGet(d, KeyPulse).int>>

\* The parsed Measurements are the serialised ones, in the same order.
SameMeasurements ==
  /\ pc = "returned"
  /\ Len(data) = Len(bp_dict)
  /\ \A i \in 1..Len(bp_dict) :
       /\ DictItems(as_dict(data[i])) = DictItems(bp_dict[i])
       /\ as_tuple(data[i]) = TupleOf(bp_dict[i])

\* No attribute of a serialised Measurement is a tuple.
NoTuples ==
  \A i \in 1..Len(bp_dict) : \A k \in 1..Len(bp_dict[i].dict) : ~IsTuple(bp_dict[i].dict[k].v)

\* C14 as claimed: for every list of Measurements with JSON-serialisable
\* extras, writing their as_dict() forms to a JSON array and parsing it with
\* parse_json(as_obj=True) returns Measurements in the same order whose
\* as_dict() and as_tuple() equal the originals'.
C14_RoundTripAnyExtras == pc \in {"returned", "raised"} => SameMeasurements

\* C14, amended: the same, for Measurements whose extras are None, ints,
\* strings and lists of these; a tuple comes back as a list.
C14_RoundTrip == (pc \in {"returned", "raised"} /\ NoTuples) => SameMeasurements

\* C14's case: two Measurements, the first with a date, came back equal.
C14_Witness ==
  /\ pc = "returned"
  /\ Len(bp_dict) = 2
  /\ DictItems(bp_dict[1]) = {<<KeySys, PyInt(1)>>, <<KeyDia, PyInt(2)>>,
                              <<KeyPulse, PyInt(3)>>, <<KeyDate, PyStr(<<"d">>)>>}
  /\ data = <<[sys |-> 1, dia |-> 2, pulse |-> 3, date |-> PyStr(<<"d">>)],
              [sys |-> -3, dia |-> 0, pulse |-> 4]>>

----------------------------------------------------------------------------
(* main.                                                                   *)

RETURN_CODES ==
  [okay |-> 0, error_argument_parser |-> 1, error_input_nothing_found |-> 2,
   error_input_parsing |-> 3, error_env_missing_library |-> 10]

\* A file that open() cannot read, and a file with its lines.
Unreadable == [IOError |-> TRUE]

File(ls) == [lines |-> ls]

\* read_files: the lines of every file in turn; a file that cannot be read
\* is warned about and passed over.
RECURSIVE read_files(_)
read_files(files) ==
  IF Len(files) = 0 THEN <<>>
  ELSE (IF files[1] = Unreadable THEN <<>> ELSE files[1].lines) \o read_files(Tail(files))

\* parse_data: call the parser args.parser names, with its arguments taken
\* from args.
main_parse_data ==
  /\ pc = "main"
  /\ pc' = IF args.parser = "plain" THEN "loop" ELSE "call"
  /\ UNCHANGED <<lines, args, consumed, line, line_data, data, stats, exc, bp_dict, status>>

\* Statistic(...) on the list the parser returned.  No except clause of main
\* catches what __init__ raises.
main_Statistic ==
  /\ pc = "returned"
  /\ LET r == evaluate_data(data)
     IN IF IsError(r)
        THEN pc' = "uncaught" /\ exc' = [type |-> r.error] /\ stats' = stats
        ELSE pc' = "stats" /\ exc' = exc /\ stats' = r
  /\ UNCHANGED <<lines, args, consumed, line, line_data, data, bp_dict, status>>

\* Statistic.__nonzero__.
nonzero(d) == Len(d) > 0

\* The rest of the try block: report the statistics, or that no values were
\* found; then the outputs.  output_chart names pygal, which is not bound
\* when its import failed: NameError, caught by main.
main_output ==
  /\ pc = "stats"
  /\ pc' = "exit"
  /\ status' = IF ~nonzero(data) THEN PyInt(RETURN_CODES.error_input_nothing_found)
               ELSE IF args.chart /\ ~args.pygal
               THEN PyInt(RETURN_CODES.error_env_missing_library)
               ELSE PyInt(RETURN_CODES.okay)
  /\ exc' = IF nonzero(data) /\ args.chart /\ ~args.pygal
            THEN [type |-> "NameError"] ELSE exc
  /\ UNCHANGED <<lines, args, consumed, line, line_data, data, stats, bp_dict>>

\* The parser raised: except BpdiagError reports it and returns; any other
\* exception leaves main.
main_except ==
  /\ pc = "raised"
  /\ IF exc.type = "BpdiagError"
     THEN pc' = "exit" /\ status' = PyInt(RETURN_CODES.error_input_parsing)
     ELSE pc' = "uncaught" /\ status' = status
  /\ UNCHANGED <<lines, args, consumed, line, line_data, data, stats, exc, bp_dict>>

\* The files of a run with the plain parser: empty, blank, and with one or
\* two tokens on a line.
PlainFiles ==
  {Unreadable, File(<<>>), File(<<TokBlank>>), File(<<TokOk>>), File(<<TokSkip>>),
   File(<<TokNonInt>>), File(<<TokBlank, Join(<<TokOk, TokOk>>, Comma)>>)}

\* The files of a run with the json parser: [], [[3, 2, 1]], and a text cut
\* short.
JsonFiles ==
  {Unreadable, File(<<<<LBracket, RBracket>>>>),
   File(<<json_dumps([list |-> <<ElemOk>>])>>), File(<<<<LBracket>>>>)}

\* The command line, and whether ``import pygal`` succeeded.
MainArgs ==
  [parser : {"plain", "json"}, align_lines : BOOLEAN, keep_empty_lines : BOOLEAN,
   entries : {0}, skip : {<<"-">>}, separator : {<<"/">>}, delimiter : {Comma},
   check : {Strict, Lenient, Silent}, as_obj : {FALSE}, chart : BOOLEAN,
   pygal : BOOLEAN]

InitMain ==
  /\ args \in MainArgs
  /\ lines \in {read_files(fs) :
                  fs \in UNION {[1..n -> IF args.parser = "plain" THEN PlainFiles
                                         ELSE JsonFiles] : n \in 1..MaxFiles}}
  /\ consumed = 0
  /\ line = <<>>
  /\ line_data = <<>>
  /\ data = <<>>
  /\ stats = NoStats
  /\ pc = "main"
  /\ exc = NoExc
  /\ bp_dict = <<>>
  /\ status = None

NextMain ==
  \/ main_parse_data
  \/ plaintext_next_line
  \/ plaintext_return
  \/ parse_json
  \/ main_Statistic
  \/ main_output
  \/ main_except

SpecMain == InitMain /\ [][NextMain]_vars

----------------------------------------------------------------------------
(* Properties of main.                                                     *)

\* The parser came back with a list and did not raise.
ParserReturned ==
  \/ pc \in {"returned", "stats"}
  \/ pc \in {"exit", "uncaught"} /\ exc.type \notin {"BpdiagError"} /\ consumed = Len(lines)

----------------------------------------------------------------------------
(* Further properties of Statistic.                                        *)

\* The values of a field that count for its statistics: those of the
\* Measurement entries that filter(None, ...) keeps.
Counted(d, f) == SelectSeq(FieldValues(d, f), LAMBDA v : v # 0)

\* The quotient of a by n > 0, rounded toward zero and rounded down.
Truncated(a, n) ==
  CHOOSE q \in -(IF a >= 0 THEN a ELSE -a)..(IF a >= 0 THEN a ELSE -a) :
    IF a >= 0 THEN q * n <= a /\ a < (q + 1) * n
    ELSE (q - 1) * n < a /\ a <= q * n

Floored(a, n) ==
  CHOOSE q \in -(IF a >= 0 THEN a ELSE -a)..(IF a >= 0 THEN a ELSE -a) :
    q * n <= a /\ a < (q + 1) * n

\* C16 as claimed: for each field with at least one counted value, avg is
\* the quotient of the sum of the counted values by their count, truncated
\* toward zero, negative sums included.
C16_AvgTruncates ==
  Constructed =>
    \A f \in {"sys", "dia", "pulse"} :
      LET vs == Counted(data, f)
      IN Len(vs) > 0 => stats[f \o "_avg"] = PyInt(Truncated(SeqSum(vs), Len(vs)))

\* C16, amended: for each field with at least one counted value, avg is the
\* quotient of the sum of the counted values by their count rounded down
\* (toward minus infinity), never rounded to the nearest; this is the
\* truncated quotient when the sum is not negative.
C16_AvgFloors ==
  Constructed =>
    \A f \in {"sys", "dia", "pulse"} :
      LET vs == Counted(data, f)
      IN Len(vs) > 0 =>
           /\ stats[f \o "_avg"] = PyInt(Floored(SeqSum(vs), Len(vs)))
           /\ SeqSum(vs) >= 0 => stats[f \o "_avg"] = PyInt(Truncated(SeqSum(vs), Len(vs)))

\* C16's case: sys values -3 and 2, of sum -1, gave the average -1.
C16_Witness ==
  /\ pc = "constructed"
  /\ Counted(data, "sys") = <<-3, 2>>
  /\ stats.sys_avg = PyInt(-1)
  /\ stats.pulse_avg = PyInt(4)

----------------------------------------------------------------------------
(* Empty tokens, and the three modes of parse_plaintext side by side.      *)

\* C17: in lenient mode, when the slots of a line before an empty or
\* whitespace-only token hold valid tokens and the token is reached as a
\* slot, the token gives a placeholder if it is the last token of the line,
\* and raises BpdiagError for a wrong number of values if it is not.
C17_EmptyTokenTrailingOnly ==
  (args.check = Lenient /\ consumed > 0 /\ IsParsed(lines[consumed])) =>
    LET toks == TokensOf[lines[consumed]]
        k == Len(toks)
    IN \A j \in 1..IntMin(k, SlotCount(k)) :
         (toks[j] = TokBlank /\ \A i \in 1..(j - 1) : IsValidTok(toks[i], args.separator)) =>
           IF j = k
           THEN /\ pc # "raised"
                /\ Len(line_data) >= j
                /\ line_data[j] = None
           ELSE /\ pc = "raised"
                /\ exc = BpdiagError("wrong number of values in token")
                /\ Len(line_data) = j - 1

\* C17's case: a trailing empty token gave a placeholder after the
\* Measurement of the token before it.
C17_Witness ==
  /\ args.check = Lenient
  /\ args.entries = 0
  /\ args.separator = <<"/">>
  /\ lines = <<Join(<<TokOk, TokBlank>>, Comma)>>
  /\ pc = "returned"
  /\ data = <<[sys |-> 1, dia |-> 2, pulse |-> 3], None>>

\* The slots of a result, flat or aligned, hold no placeholder.
NoPlaceholder(d) == \A k \in 1..Len(Slots(d)) : ~IsNone(Slots(d)[k])

\* The same call in another mode.
InMode(check) == parse_plaintext(lines, [args EXCEPT !.check = check])

\* C18: with the lines and the other options the same, a result that strict
\* mode returns holds no placeholder and is the result lenient mode returns;
\* a result that lenient mode returns is the result silent mode returns.
C18_ModesRefine ==
  pc = "returned" =>
    /\ InMode(args.check) = [value |-> data]
    /\ args.check = Strict => NoPlaceholder(data) /\ InMode(Lenient) = [value |-> data]
    /\ args.check = Lenient => InMode(Silent) = [value |-> data]

\* C18's case: under entries = 2, lenient mode returned a Measurement and a
\* placeholder for the missing slot of the first line, a placeholder for the
\* skip marker and one more for the second line, and so does silent mode,
\* while strict mode raises.
C18_Witness ==
  /\ pc = "returned"
  /\ args.check = Lenient
  /\ args.entries = 2
  /\ args.skip = <<"-">>
  /\ args.separator = <<"/">>
  /\ ~args.align_lines
  /\ lines = <<TokOk, TokSkip>>
  /\ data = <<[sys |-> 1, dia |-> 2, pulse |-> 3], None, None, None>>
  /\ InMode(Silent) = [value |-> data]
  /\ "exc" \in DOMAIN InMode(Strict)

====
